---- MODULE Spec2Model ----
(***************************************************************************)
(* A model of arm_archive.py: the client of the ARM Archive web service    *)
(* (list_datastreams, list_files, valid_user, order_files, order_clear),   *)
(* of its FTP order area (order_download, list_order_files,                *)
(* list_orders_ready) and of the `order` command of main.                  *)
(*                                                                         *)
(* Text is modelled as a sequence of one-character strings, so that the    *)
(* regular-expression searches, the sort and the date arithmetic of the    *)
(* code are computed and not assumed.  Python's None / str / list are      *)
(* tagged records [t |-> "none" | "str" | "list", v |-> ...].              *)
(***************************************************************************)
EXTENDS Integers, Sequences, FiniteSets, TLC

VARIABLES
    \* ---- the FTP operations (lines 190-274)
    op,            \* the FTP operation being run, "" before the first call
    args,          \* its arguments [user, order_id, files]
    pc,            \* position of the running order_download / outcome of a call
    ftp,           \* this call's FTP object: "none", "open" (logged in), "closed"
    openSessions,  \* sessions open on the server, earlier calls' included
    cmds,          \* the FTP commands this call has issued, in order
    listing,       \* what NLST answered in this call
    files,         \* order_download's local `files`
    done,          \* number of files of `files` fully retrieved by the loop
    disk,          \* the working directory: file name -> "absent" | "partial" | "full"
    raised,        \* the error the call has raised, "none" if none
    \* ---- the web service operations and main (lines 36-187, 296-451)
    call,          \* the last web-service operation or command, with its arguments
    sent,          \* the requests this call sent to the web service, in order
    reply,         \* the web service's replies to them
    ret            \* what the call returned (or how the command ended)

ftpVars == <<op, args, pc, ftp, openSessions, cmds, listing, files, done, disk, raised>>
wsVars == <<call, sent, reply, ret>>
vars == <<op, args, pc, ftp, openSessions, cmds, listing, files, done, disk, raised,
          call, sent, reply, ret>>

(***************************************************************************)
(* Bounds                                                                  *)
(***************************************************************************)
MaxFiles == 2      \* longest `files` list and longest directory listing
MaxOpen == 2       \* sessions the server lets stay open (stops the call counter)

None == [t |-> "none", v |-> <<>>]
Str(s) == [t |-> "str", v |-> <<s>>]
List(l) == [t |-> "list", v |-> l]

SeqsUpTo(S, n) == UNION {[1..k -> S] : k \in 0..n}

Range(s) == {s[k] : k \in 1..Len(s)}

(***************************************************************************)
(* The FTP order area                                                      *)
(***************************************************************************)
Users == {"jdoe"}
FileNames == {"f1.nc", "f2.nc", "f3.nc"}

\* order_id is "str or int": an int n is [t |-> "int", v |-> <<n>>]
OrderIds == {Str(<<"7">>), [t |-> "int", v |-> <<12>>]}

Digit(n) == <<"0", "1", "2", "3", "4", "5", "6", "7", "8", "9">>[n + 1]

RECURSIVE Decimal(_)
Decimal(n) == IF n < 10 THEN <<Digit(n)>> ELSE Append(Decimal(n \div 10), Digit(n % 10))

\* str(order_id)
PyStr(o) == IF o.t = "int" THEN Decimal(o.v[1]) ELSE o.v[1]

FilesArgs == {None} \cup {Str(f) : f \in FileNames}
                \cup {List(l) : l \in SeqsUpTo(FileNames, MaxFiles)}

\* a directory listing names no file twice
Listings == {l \in SeqsUpTo(FileNames, MaxFiles) : \A j, k \in 1..Len(l) : l[j] = l[k] => j = k}

Cmd(c, a) == [cmd |-> c, arg |-> a]

Returned == pc \in {"idle", "done", "failed"}

\* a call starts: nothing issued, nothing raised, no FTP object yet
StartFtpCall(o, a) ==
    /\ Returned
    /\ openSessions < MaxOpen
    /\ op' = o
    /\ args' = a
    /\ done' = 0
    /\ UNCHANGED <<disk, wsVars>>

\* order_download is entered: lines 190, 207
DownloadCall(user, order_id, fs) ==
    /\ StartFtpCall("order_download", [user |-> user, order_id |-> order_id, files |-> fs])
    /\ pc' = "login"
    /\ ftp' = "none"
    /\ cmds' = <<>>
    /\ files' = fs
    /\ listing' = <<>>
    /\ raised' = "none"
    /\ UNCHANGED openSessions

Fail(e) ==
    /\ pc' = "failed"
    /\ raised' = e

\* ftp = _FTP(_ARM_FTP); ftp.login(); when the connection is refused nothing is opened
DownloadLogin(ok) ==
    /\ op = "order_download" /\ pc = "login"
    /\ IF ok
         THEN /\ ftp' = "open"
              /\ openSessions' = openSessions + 1
              /\ cmds' = Append(cmds, Cmd("LOGIN", <<>>))
              /\ pc' = "cwd_user"
              /\ UNCHANGED raised
         ELSE /\ Fail("socket.error")
              /\ UNCHANGED <<ftp, openSessions, cmds>>
    /\ UNCHANGED <<op, args, listing, files, done, disk, wsVars>>

\* ftp.cwd(user)
DownloadCwdUser(ok) ==
    /\ op = "order_download" /\ pc = "cwd_user"
    /\ cmds' = Append(cmds, Cmd("CWD", <<args.user>>))
    /\ IF ok THEN pc' = "cwd_order" /\ UNCHANGED raised ELSE Fail("error_perm")
    /\ UNCHANGED <<op, args, ftp, openSessions, listing, files, done, disk, wsVars>>

\* ftp.cwd(str(order_id))
DownloadCwdOrder(ok) ==
    /\ op = "order_download" /\ pc = "cwd_order"
    /\ cmds' = Append(cmds, Cmd("CWD", PyStr(args.order_id)))
    /\ IF ok THEN pc' = "grab" /\ UNCHANGED raised ELSE Fail("error_perm")
    /\ UNCHANGED <<op, args, ftp, openSessions, listing, files, done, disk, wsVars>>

\* a faulty FilesToGet: the directory listing whatever was asked for
FilesToGetAlwaysListed(fs, l) == l

\* if files is None: files = ftp.nlst(); if isinstance(files, str): files = [files]
FilesToGet(fs, l) == IF fs.t = "none" THEN l ELSE fs.v

\* lines 216-219: the listing is asked for only when files is None
DownloadGrab(ok, l) ==
    /\ op = "order_download" /\ pc = "grab"
    /\ IF files.t = "none"
         THEN /\ cmds' = Append(cmds, Cmd("NLST", <<>>))
              /\ IF ok
                   THEN /\ listing' = l
                        /\ files' = List(FilesToGet(files, l))
                        /\ pc' = "retr"
                        /\ UNCHANGED raised
                   ELSE /\ Fail("error_perm")
                        /\ UNCHANGED <<listing, files>>
         ELSE /\ ok /\ l = <<>>
              /\ files' = List(FilesToGet(files, l))
              /\ pc' = "retr"
              /\ UNCHANGED <<cmds, listing, raised>>
    /\ UNCHANGED <<op, args, ftp, openSessions, done, disk, wsVars>>

\* a faulty AfterFailedRetr: a rollback that removes what the call had written
AfterFailedRetrRollback(d, fs, k) ==
    [f \in DOMAIN d |-> IF f \in {fs[j] : j \in 1..k} THEN "absent" ELSE d[f]]

\* open(filename, 'wb') has emptied the file and the transfer stopped part way
AfterFailedRetr(d, fs, k) == [d EXCEPT ![fs[k]] = "partial"]

\* one turn of the loop: print; open(filename, 'wb'); ftp.retrbinary('RETR ' + filename, ...)
\* open() is evaluated first and may fail before anything is sent
DownloadRetr(out) ==
    /\ op = "order_download" /\ pc = "retr"
    /\ done < Len(files.v)
    /\ CASE out = "ok" ->
              /\ cmds' = Append(cmds, Cmd("RETR", <<files.v[done + 1]>>))
              /\ disk' = [disk EXCEPT ![files.v[done + 1]] = "full"]
              /\ done' = done + 1
              /\ UNCHANGED <<pc, raised>>
         [] out = "retr_fails" ->
              /\ cmds' = Append(cmds, Cmd("RETR", <<files.v[done + 1]>>))
              /\ disk' = AfterFailedRetr(disk, files.v, done + 1)
              /\ Fail("error_perm")
              /\ UNCHANGED done
         [] out = "open_fails" ->
              /\ Fail("IOError")
              /\ UNCHANGED <<cmds, disk, done>>
    /\ UNCHANGED <<op, args, ftp, openSessions, listing, files, wsVars>>

\* the loop is over: ftp.quit(); return
DownloadQuit ==
    /\ op = "order_download" /\ pc = "retr"
    /\ done = Len(files.v)
    /\ cmds' = Append(cmds, Cmd("QUIT", <<>>))
    /\ ftp' = "closed"
    /\ openSessions' = openSessions - 1
    /\ pc' = "done"
    /\ UNCHANGED <<op, args, listing, files, done, disk, raised, wsVars>>

\* How far a listing call gets: the step that fails, or "ok"
ListOutcomes == {"login", "cwd_user", "cwd_order", "nlst", "ok"}

\* the commands of a listing call that navigates with `nav` and stops at `outcome`
RECURSIVE NavCmds(_, _, _)
NavCmds(nav, stage, outcome) ==
    IF nav = <<>> THEN <<>>
    ELSE <<Cmd("CWD", Head(nav))>> \o
         (IF outcome = stage[1] THEN <<>> ELSE NavCmds(Tail(nav), Tail(stage), outcome))

ListCmds(nav, stage, outcome) ==
    IF outcome = "login" THEN <<>>
    ELSE LET n == NavCmds(nav, stage, outcome)
         IN  <<Cmd("LOGIN", <<>>)>> \o n \o
             (IF outcome \in {"nlst", "ok"} THEN <<Cmd("NLST", <<>>)>> ELSE <<>>)

\* what the listing calls do with their FTP object: there is no ftp.quit()
ListFtpAfter(outcome) == IF outcome = "login" THEN "none" ELSE "open"

ListCall(o, a, nav, stage, outcome, l) ==
    /\ StartFtpCall(o, a)
    /\ outcome \in (Range(stage) \cup {"login", "nlst", "ok"})
    /\ outcome = "ok" \/ l = <<>>
    /\ cmds' = ListCmds(nav, stage, outcome)
    /\ ftp' = ListFtpAfter(outcome)
    /\ openSessions' = IF ftp' = "open" THEN openSessions + 1 ELSE openSessions
    /\ listing' = l
    /\ files' = None
    /\ pc' = IF outcome = "ok" THEN "done" ELSE "failed"
    /\ raised' = IF outcome = "ok" THEN "none"
                 ELSE IF outcome = "login" THEN "socket.error" ELSE "error_perm"

\* list_order_files(user, order_id): lines 245-252
ListOrderFiles(user, order_id, outcome, l) ==
    ListCall("list_order_files", [user |-> user, order_id |-> order_id, files |-> None],
             <<<<user>>, PyStr(order_id)>>, <<"cwd_user", "cwd_order">>, outcome, l)

\* list_orders_ready(user): lines 271-274
ListOrdersReady(user, outcome, l) ==
    ListCall("list_orders_ready", [user |-> user, order_id |-> None, files |-> None],
             <<<<user>>>>, <<"cwd_user">>, outcome, l)


(***************************************************************************)
(* Text: str values are sequences of one-character strings                 *)
(***************************************************************************)
\* the printable ASCII characters in code-point order (three of them by name)
Ascii ==
    <<" ", "!", "quote", "#", "$", "%", "&", "'", "(", ")", "*", "+", ",", "-", ".", "/", "0", "1", "2", "3", "4", "5", "6", "7", "8", "9", ":", ";", "<", "=", ">", "?">> \o
    <<"@", "A", "B", "C", "D", "E", "F", "G", "H", "I", "J", "K", "L", "M", "N", "O", "P", "Q", "R", "S", "T", "U", "V", "W", "X", "Y", "Z", "[", "backslash", "]", "^", "_">> \o
    <<"backtick", "a", "b", "c", "d", "e", "f", "g", "h", "i", "j", "k", "l", "m", "n", "o", "p", "q", "r", "s", "t", "u", "v", "w", "x", "y", "z", "{", "|", "}", "~">>

\* ord(c)
Ord(c) == 31 + CHOOSE k \in 1..Len(Ascii) : Ascii[k] = c

\* Python's a < b on str: by code point at the first difference, a proper prefix first
RECURSIVE StrLess(_, _)
StrLess(a, b) ==
    IF b = <<>> THEN FALSE
    ELSE IF a = <<>> THEN TRUE
    ELSE IF Head(a) = Head(b) THEN StrLess(Tail(a), Tail(b))
    ELSE Ord(Head(a)) < Ord(Head(b))

\* insertion behind the last element that is not greater: a stable sort, as sorted() is
RECURSIVE Insert(_, _)
Insert(x, l) ==
    IF l = <<>> THEN <<x>>
    ELSE IF StrLess(x, Head(l)) THEN <<x>> \o l
    ELSE <<Head(l)>> \o Insert(x, Tail(l))

\* a faulty PySorted: a sort that also drops repeated entries
RECURSIVE PySortedUnique(_)
PySortedUnique(l) ==
    IF l = <<>> THEN <<>>
    ELSE LET r == PySortedUnique(SubSeq(l, 1, Len(l) - 1))
         IN  IF l[Len(l)] \in Range(r) THEN r ELSE Insert(l[Len(l)], r)

\* sorted(l)
RECURSIVE PySorted(_)
PySorted(l) ==
    IF l = <<>> THEN <<>>
    ELSE Insert(l[Len(l)], PySorted(SubSeq(l, 1, Len(l) - 1)))

(***************************************************************************)
(* _regex_filter.  The patterns are those of the subset: literal           *)
(* characters, ".", "^" and "$".                                           *)
(***************************************************************************)
\* does pattern pat, from its i-th element on, match s at position j
RECURSIVE MatchHere(_, _, _, _)
MatchHere(pat, i, s, j) ==
    IF i > Len(pat) THEN TRUE
    ELSE IF pat[i] = "^" THEN j = 1 /\ MatchHere(pat, i + 1, s, j)
    ELSE IF pat[i] = "$" THEN j = Len(s) + 1 /\ MatchHere(pat, i + 1, s, j)
    ELSE /\ j <= Len(s)
         /\ pat[i] = "." \/ pat[i] = s[j]
         /\ MatchHere(pat, i + 1, s, j + 1)

\* p = _re.compile(pattern); p.search(s) is not None
Search(pat, s) == \E j \in 1..(Len(s) + 1) : MatchHere(pat, 1, s, j)

\* _regex_filter(sequence, pattern)
RegexFilter(sequence, pattern) ==
    IF pattern.t = "none" THEN sequence
    ELSE SelectSeq(sequence, LAMBDA x : Search(pattern.v[1], x))

(***************************************************************************)
(* The date arithmetic of list_files: strptime, + timedelta(days=1),       *)
(* strftime, as the datetime module computes them (proleptic Gregorian     *)
(* ordinals).                                                              *)
(***************************************************************************)
DigitVal(c) == Ord(c) - Ord("0")

IsDigit(c) == c \in {"0", "1", "2", "3", "4", "5", "6", "7", "8", "9"}

IsLeap(y) == y % 4 = 0 /\ (y % 100 # 0 \/ y % 400 = 0)

\* a faulty DaysInMonth: every fourth year is a leap year
DaysInMonthJulian(y, m) ==
    IF m = 2 THEN (IF y % 4 = 0 THEN 29 ELSE 28)
    ELSE <<31, 28, 31, 30, 31, 30, 31, 31, 30, 31, 30, 31>>[m]

DaysInMonth(y, m) ==
    IF m = 2 /\ IsLeap(y) THEN 29
    ELSE <<31, 28, 31, 30, 31, 30, 31, 31, 30, 31, 30, 31>>[m]

RECURSIVE DaysBeforeMonth(_, _)
DaysBeforeMonth(y, m) == IF m = 1 THEN 0 ELSE DaysBeforeMonth(y, m - 1) + DaysInMonth(y, m - 1)

DaysBeforeYear(y) ==
    (y - 1) * 365 + ((y - 1) \div 4) - ((y - 1) \div 100) + ((y - 1) \div 400)

Ymd2Ord(d) == DaysBeforeYear(d.y) + DaysBeforeMonth(d.y, d.m) + d.d

\* date.fromordinal: the year by 400-, 100-, 4- and 1-year cycles, then the month
Ord2Ymd(n) ==
    LET n0 == n - 1
        n400 == n0 \div 146097
        r400 == n0 % 146097
        n100 == r400 \div 36524
        r100 == r400 % 36524
        n4 == r100 \div 1461
        r4 == r100 % 1461
        n1 == r4 \div 365
        r1 == r4 % 365
        year == n400 * 400 + 1 + n100 * 100 + n4 * 4 + n1
        guess == (r1 + 50) \div 32
        month == IF DaysBeforeMonth(year, guess) > r1 THEN guess - 1 ELSE guess
    IN  IF n1 = 4 \/ n100 = 4
          THEN [y |-> year - 1, m |-> 12, d |-> 31]
          ELSE [y |-> year, m |-> month, d |-> r1 - DaysBeforeMonth(year, month) + 1]

\* _datetime.strptime(s, '%Y%m%d') for an 8-digit s: the date, or no date (ValueError)
Strptime(s) ==
    LET y == DigitVal(s[1]) * 1000 + DigitVal(s[2]) * 100 + DigitVal(s[3]) * 10 + DigitVal(s[4])
        m == DigitVal(s[5]) * 10 + DigitVal(s[6])
        d == DigitVal(s[7]) * 10 + DigitVal(s[8])
    IN  IF /\ Len(s) = 8 /\ \A k \in 1..8 : IsDigit(s[k])
           /\ y >= 1 /\ m \in 1..12 /\ d >= 1 /\ d <= DaysInMonth(y, m)
          THEN [ok |-> TRUE, y |-> y, m |-> m, d |-> d]
          ELSE [ok |-> FALSE, y |-> 0, m |-> 0, d |-> 0]

TwoDigits(n) == <<Digit(n \div 10), Digit(n % 10)>>

\* d.strftime('%Y%m%d') for a year of four digits
Strftime(d) ==
    <<Digit(d.y \div 1000), Digit((d.y \div 100) % 10), Digit((d.y \div 10) % 10),
      Digit(d.y % 10)>> \o TwoDigits(d.m) \o TwoDigits(d.d)

\* (dt + _timedelta(days=1)).strftime('%Y%m%d')
NextDay(dt) == Strftime(Ord2Ymd(Ymd2Ord(dt) + 1))

(***************************************************************************)
(* The web service operations                                              *)
(***************************************************************************)
\* the web service operations keep nothing between calls: each is modelled from a
\* fresh process that makes the one call
Fresh == call.name = ""

Request(o, a) == [op |-> o, a |-> a]
Raise(e) == [t |-> "raise", v |-> <<e>>]
Bool(b) == [t |-> "bool", v |-> <<b>>]

\* list_datastreams(pattern): lines 53-55
ListDatastreams(pattern, datastreams) ==
    /\ Fresh
    /\ call' = [name |-> "list_datastreams", pattern |-> pattern]
    /\ sent' = <<Request("getDataStreams", <<>>)>>
    /\ reply' = <<datastreams>>
    /\ ret' = List(PySorted(RegexFilter(datastreams, pattern)))
    /\ UNCHANGED ftpVars

NoDataFilesFound == <<"N", "o", " ", "d", "a", "t", "a", " ", "f", "i", "l", "e", "s", " ", "f", "o", "u", "n", "d">>

\* a faulty IsNoData: the sentinel is looked for in the first entry of any reply
IsNoDataFirstEntry(fs) == Len(fs) >= 1 /\ fs[1] = NoDataFilesFound

\* len(files) == 1 and files[0] == 'No data files found'
IsNoData(fs) == Len(fs) = 1 /\ fs[1] = NoDataFilesFound

\* lines 86-88: what list_files returns for the reply fs
ListFilesResult(fs, pattern) ==
    IF IsNoData(fs) THEN List(<<>>) ELSE List(PySorted(RegexFilter(fs, pattern)))

\* list_files(datastreams, startdate, enddate, pattern): lines 81-88
ListFiles(datastreams, startdate, enddate, pattern, fs) ==
    LET dt == Strptime(startdate)
        end == IF enddate.t = "none" THEN Str(NextDay(dt)) ELSE enddate
    IN  /\ Fresh
        /\ call' = [name |-> "list_files", datastreams |-> datastreams,
                    startdate |-> startdate, enddate |-> enddate, pattern |-> pattern]
        /\ IF enddate.t = "none" /\ ~dt.ok
             THEN /\ sent' = <<>>
                  /\ reply' = <<>>
                  /\ ret' = Raise("ValueError")
                  /\ fs = <<>>
             ELSE /\ sent' = <<Request("getFiles", <<datastreams, Str(startdate), end>>)>>
                  /\ reply' = <<fs>>
                  /\ ret' = ListFilesResult(fs, pattern)
        /\ UNCHANGED ftpVars

\* the replies, patterns and dates the listing operations are tried on
MaxReply == 3      \* longest reply of getDataStreams / getFiles

DataNames == {<<"a">>, <<"b">>, <<"a", "b">>, <<"b", "a">>, <<"N", "o">>, NoDataFilesFound}

Replies == SeqsUpTo(DataNames, MaxReply)

Patterns == {None, Str(<<>>), Str(<<"a">>), Str(<<"^", "b">>), Str(<<"a", "$">>),
             Str(<<".", "a">>), Str(<<"d", "a", "t", "a">>), Str(<<"z">>)}

Datastreams == {Str(<<"s", "g", "p", "m", "e", "t", "E", "1", "3", ".", "b", "1">>)}

Date(y, m, d) ==
    <<Digit(y \div 1000), Digit((y \div 100) % 10), Digit((y \div 10) % 10), Digit(y % 10),
      Digit(m \div 10), Digit(m % 10), Digit(d \div 10), Digit(d % 10)>>

\* start dates, the ones no calendar has (20230230, 20230431, ...) included
StartDates == {Date(y, m, d) : y \in {1999, 2000, 2020, 2023, 2024, 2100},
                               m \in 1..12, d \in {1, 27, 28, 29, 30, 31}}

EndDates == {None, Str(Date(2020, 1, 5))}

(***************************************************************************)
(* order_files: the search for the confirmation text                       *)
(***************************************************************************)
\* what \s, [a-z] and [0-9] match
Whitespace == {" ", "\t", "\n", "\r"}
Lowercase == {"a", "b", "c", "d", "e", "f", "g", "h", "i", "j", "k", "l", "m", "n", "o", "p", "q", "r", "s", "t", "u", "v", "w", "x", "y", "z"}
Digits == {"0", "1", "2", "3", "4", "5", "6", "7", "8", "9"}

Lit(x) == [k |-> "lit", s |-> x, cls |-> {}]
Star(c) == [k |-> "star", s |-> <<>>, cls |-> c]
Group(c) == [k |-> "group", s |-> <<>>, cls |-> c]

\* a faulty OrderPattern: the user name may hold any letter (re.IGNORECASE)
OrderPatternAnyCase ==
    <<Lit(<<"u", "s", "e", "r", ":">>), Star(Whitespace), Group(Lowercase \cup {"A", "D", "J", "O", "E"}),
      Lit(<<",", " ", "o", "r", "d", "e", "r", " ", "s", "e", "s", "s", "i", "o", "n", " ", "I", "D", ":">>), Star(Whitespace), Group(Digits),
      Lit(<<" ", "n", "u", "m", "b", "e", "r", " ", "o", "f", " ", "f", "i", "l", "e", "s", " ", "o", "r", "d", "e", "r", "e", "d", ":">>), Star(Whitespace), Group(Digits)>>

\* r'user:\s*([a-z]+), ' r'order session ID:\s*([0-9]+) ' r'number of files ordered:\s*([0-9]+)'
OrderPattern ==
    <<Lit(<<"u", "s", "e", "r", ":">>), Star(Whitespace), Group(Lowercase),
      Lit(<<",", " ", "o", "r", "d", "e", "r", " ", "s", "e", "s", "s", "i", "o", "n", " ", "I", "D", ":">>), Star(Whitespace), Group(Digits),
      Lit(<<" ", "n", "u", "m", "b", "e", "r", " ", "o", "f", " ", "f", "i", "l", "e", "s", " ", "o", "r", "d", "e", "r", "e", "d", ":">>), Star(Whitespace), Group(Digits)>>

\* the length of the longest run of characters of cls in text from position j
RECURSIVE RunLen(_, _, _)
RunLen(text, j, cls) ==
    IF j <= Len(text) /\ text[j] \in cls THEN 1 + RunLen(text, j + 1, cls) ELSE 0

\* the match of pat from its i-th element at position j of text, and its groups.
\* Every repetition is taken as long as it goes: in this pattern the element after
\* a repetition never starts with a character the repetition accepts, so the
\* matcher of re has nothing to gain by giving characters back.
RECURSIVE MatchAt(_, _, _, _, _)
MatchAt(pat, i, text, j, groups) ==
    IF i > Len(pat) THEN [ok |-> TRUE, groups |-> groups]
    ELSE LET e == pat[i]
             n == RunLen(text, j, e.cls)
         IN  CASE e.k = "lit" ->
                    IF j + Len(e.s) - 1 <= Len(text) /\ SubSeq(text, j, j + Len(e.s) - 1) = e.s
                      THEN MatchAt(pat, i + 1, text, j + Len(e.s), groups)
                      ELSE [ok |-> FALSE, groups |-> <<>>]
               [] e.k = "star" -> MatchAt(pat, i + 1, text, j + n, groups)
               [] e.k = "group" ->
                    IF n >= 1
                      THEN MatchAt(pat, i + 1, text, j + n,
                                   Append(groups, SubSeq(text, j, j + n - 1)))
                      ELSE [ok |-> FALSE, groups |-> <<>>]

\* pattern.search(response): the match at the leftmost position that has one
RECURSIVE SearchFrom(_, _, _)
SearchFrom(pat, text, j) ==
    IF j > Len(text) + 1 THEN [ok |-> FALSE, groups |-> <<>>]
    ELSE LET m == MatchAt(pat, 1, text, j, <<>>)
         IN  IF m.ok THEN m ELSE SearchFrom(pat, text, j + 1)

Tuple(a, b) == [t |-> "tuple", v |-> <<a, b>>]

\* lines 137-144: (True, match.groups()) or (False, response)
OrderFilesResult(response) ==
    LET match == SearchFrom(OrderPattern, response, 1)
    IN  IF match.ok THEN Tuple(TRUE, match.groups) ELSE Tuple(FALSE, response)

\* order_files(user, filenames): lines 134-144
OrderFiles(user, filenames, response) ==
    /\ Fresh
    /\ call' = [name |-> "order_files", user |-> user, filenames |-> filenames]
    /\ sent' = <<Request("processOrder", <<user, filenames>>)>>
    /\ reply' = <<response>>
    /\ ret' = OrderFilesResult(response)
    /\ UNCHANGED ftpVars

\* a faulty IsTrue: whatever is not "false" counts as true
IsTrueUnlessFalse(r) == r # <<"f", "a", "l", "s", "e">>

\* valid == 'true'
IsTrue(r) == r = <<"t", "r", "u", "e">>

\* valid_user(user): lines 106-110
ValidUser(user, valid) ==
    /\ Fresh
    /\ call' = [name |-> "valid_user", user |-> user]
    /\ sent' = <<Request("isValidUser", <<user>>)>>
    /\ reply' = <<valid>>
    /\ ret' = IF IsTrue(valid) THEN Bool(TRUE) ELSE Bool(FALSE)
    /\ UNCHANGED ftpVars

\* order_clear(user, order_id): lines 182-187
OrderClear(user, order_id, response) ==
    /\ Fresh
    /\ call' = [name |-> "order_clear", user |-> user, order_id |-> order_id]
    /\ sent' = <<Request("clearOrder", <<user, order_id>>)>>
    /\ reply' = <<response>>
    /\ ret' = IF IsTrue(response) THEN Bool(TRUE) ELSE Bool(FALSE)
    /\ UNCHANGED ftpVars

\* the replies order_files is tried on: a confirmation put together from pieces,
\* each piece right or wrong in some way, and texts of no such shape
Confirmations ==
    {pre \o l1 \o w1 \o u \o l2 \o w2 \o o \o l3 \o w3 \o n \o post :
        pre \in {<<>>, <<"O", "r", "d", "e", "r", " ", "p", "l", "a", "c", "e", "d", ".", " ">>},
        l1 \in {<<"u", "s", "e", "r", ":">>, <<"U", "s", "e", "r", ":">>},
        w1 \in {<<>>, <<" ">>},
        u \in {<<"j", "d", "o", "e">>, <<"j">>, <<"j", "D", "o", "e">>, <<>>},
        l2 \in {<<",", " ", "o", "r", "d", "e", "r", " ", "s", "e", "s", "s", "i", "o", "n", " ", "I", "D", ":">>, <<" ", "o", "r", "d", "e", "r", " ", "s", "e", "s", "s", "i", "o", "n", " ", "I", "D", ":">>},
        w2 \in {<<" ">>, <<" ", "\t">>},
        o \in {<<"1", "2", "3", "4", "5">>, <<"7">>, <<>>},
        l3 \in {<<" ", "n", "u", "m", "b", "e", "r", " ", "o", "f", " ", "f", "i", "l", "e", "s", " ", "o", "r", "d", "e", "r", "e", "d", ":">>, <<"n", "u", "m", "b", "e", "r", " ", "o", "f", " ", "f", "i", "l", "e", "s", " ", "o", "r", "d", "e", "r", "e", "d", ":">>},
        w3 \in {<<>>, <<" ">>},
        n \in {<<"7">>, <<"x">>},
        post \in {<<>>, <<".">>, <<" ", "u", "s", "e", "r", ":", " ", "b", ",", " ", "o", "r", "d", "e", "r", " ", "s", "e", "s", "s", "i", "o", "n", " ", "I", "D", ":", " ", "2", " ", "n", "u", "m", "b", "e", "r", " ", "o", "f", " ", "f", "i", "l", "e", "s", " ", "o", "r", "d", "e", "r", "e", "d", ":", " ", "3">>}}

OrderReplies == Confirmations \cup {<<>>, <<"E", "r", "r", "o", "r", ":", " ", "q", "u", "o", "t", "a", " ", "e", "x", "c", "e", "e", "d", "e", "d">>}

BoolReplies == {<<"t", "r", "u", "e">>, <<"f", "a", "l", "s", "e">>, <<>>, <<"T", "r", "u", "e">>, <<"T", "R", "U", "E">>, <<"t", "r", "u", "e", " ">>, <<" ", "t", "r", "u", "e">>, <<"1">>}

OrderedNames == {<<<<"a">>>>, <<<<"a">>, <<"b">>>>}

(***************************************************************************)
(* main: the order command                                                 *)
(***************************************************************************)
RECURSIVE LStrip(_)
LStrip(l) == IF l # <<>> /\ Head(l) \in Whitespace THEN LStrip(Tail(l)) ELSE l

RECURSIVE RStrip(_)
RStrip(l) ==
    IF l # <<>> /\ l[Len(l)] \in Whitespace THEN RStrip(SubSeq(l, 1, Len(l) - 1)) ELSE l

\* l.strip()
Strip(l) == LStrip(RStrip(l))

\* a faulty NoFilesToOrder: the test of args.files the wrong way round
NoFilesToOrderFlipped(a) == a.dates.t = "none" /\ a.file.t = "none" /\ Len(a.files) # 0

\* args.dates is None and args.file is None and len(args.files) == 0
NoFilesToOrder(a) == a.dates.t = "none" /\ a.file.t = "none" /\ Len(a.files) = 0

\* which branch of lines 394-403 gives `files`
OrderBranch(a) ==
    IF NoFilesToOrder(a) THEN "exit"
    ELSE IF Len(a.files) # 0 THEN "files"
    ELSE IF a.file.t # "none" THEN "file"
    ELSE IF a.dates.t # "none" THEN "dates"
    ELSE "unbound"

Printed(x) == [t |-> "print", v |-> x]

\* main(['order', user, files..., -f file, -d datastream start end]): lines 392-410.
\* lines is what open(args.file) reads (None: it cannot be opened), fs the reply of
\* getFiles, response the reply of processOrder.
MainOrder(a, lines, fs, response) ==
    LET b == OrderBranch(a)
        listed == ListFilesResult(fs, None)
        ordered == CASE b = "files" -> a.files
                     [] b = "file" -> [k \in 1..Len(lines.v) |-> Strip(lines.v[k])]
                     [] b = "dates" -> listed.v
        status == OrderFilesResult(response)
        submits == b = "files" \/ (b = "file" /\ lines.t = "list") \/ b = "dates"
    IN  /\ Fresh
        /\ call' = [name |-> "main_order", args |-> a, lines |-> lines]
        /\ (b = "file") \/ lines = None
        /\ (b = "dates") \/ fs = <<>>
        /\ submits \/ response = <<>>
        /\ sent' = (IF b = "dates"
                      THEN <<Request("getFiles", <<Str(a.dates.v[1]), Str(a.dates.v[2]),
                                                  Str(a.dates.v[3])>>)>>
                      ELSE <<>>)
                   \o (IF submits THEN <<Request("processOrder", <<a.user, ordered>>)>>
                       ELSE <<>>)
        /\ reply' = (IF b = "dates" THEN <<fs>> ELSE <<>>)
                    \o (IF submits THEN <<response>> ELSE <<>>)
        /\ ret' = CASE b = "exit" -> Raise("SystemExit: error: no files to order")
                    [] b = "unbound" -> Raise("UnboundLocalError")
                    [] b = "file" /\ lines.t = "none" -> Raise("IOError")
                    [] OTHER ->
                         IF status.v[1]
                           THEN Printed(<<"Success %s file(s) ordered, order_id: %s",
                                          status.v[2][3], status.v[2][2]>>)
                           ELSE Printed(<<"Order failed, response from server:", status.v[2]>>)
        /\ UNCHANGED ftpVars

\* the command lines the order command is tried on
OrderArgs ==
    [user : Users,
     files : SeqsUpTo({<<"a">>, <<"b">>}, MaxFiles),
     file : {None, Str(<<"f", "i", "l", "e", "s", ".", "t", "x", "t">>)},
     dates : {None, List(<<<<"s", "g", "p", "m", "e", "t", "E", "1", "3", ".", "b", "1">>, Date(2020, 1, 1), Date(2020, 1, 5)>>)}]

FileLines == {None, List(<<>>), List(<<<<"a", "\n">>>>),
              List(<<<<" ", "a", " ", "\n">>, <<"b">>>>)}

MainReplies == {<<>>, <<<<"b">>, <<"a">>>>, <<NoDataFilesFound>>}

MainResponses == {<<"u", "s", "e", "r", ":", " ", "b", ",", " ", "o", "r", "d", "e", "r", " ", "s", "e", "s", "s", "i", "o", "n", " ", "I", "D", ":", " ", "2", " ", "n", "u", "m", "b", "e", "r", " ", "o", "f", " ", "f", "i", "l", "e", "s", " ", "o", "r", "d", "e", "r", "e", "d", ":", " ", "3">>,
                  <<"u", "s", "e", "r", ":", " ", "j", "d", "o", "e", ",", " ", "o", "r", "d", "e", "r", " ", "s", "e", "s", "s", "i", "o", "n", " ", "I", "D", ":", " ", "1", "2", "3", "4", "5", " ", "n", "u", "m", "b", "e", "r", " ", "o", "f", " ", "f", "i", "l", "e", "s", " ", "o", "r", "d", "e", "r", "e", "d", ":", " ", "7">>, <<"E", "r", "r", "o", "r", ":", " ", "q", "u", "o", "t", "a", " ", "e", "x", "c", "e", "e", "d", "e", "d">>}

(***************************************************************************)
(* Properties of the FTP operations                                        *)
(***************************************************************************)
Retrs == SelectSeq(cmds, LAMBDA c : c.cmd = "RETR")

DownloadReturned == op = "order_download" /\ pc \in {"done", "failed"}

\* C1: order_download never finishes, normally or with an error, while the
\* session it opened is still open.
C1_SessionClosedOnEveryExit == DownloadReturned => ftp # "open"

\* what order_download was asked to retrieve, read off its arguments
Requested ==
    CASE args.files.t = "none" -> listing
      [] args.files.t = "str" -> <<args.files.v[1]>>
      [] args.files.t = "list" -> args.files.v

\* C2: when no step fails, order_download logs in, changes to user, then to
\* str(order_id), lists the directory only if files is None, and then retrieves
\* exactly the listing / the single name / the given list, in that order.
C2_RetrievesExactlyRequested ==
    (op = "order_download" /\ pc = "done") =>
        cmds = <<Cmd("LOGIN", <<>>), Cmd("CWD", <<args.user>>),
                 Cmd("CWD", PyStr(args.order_id))>>
               \o (IF args.files.t = "none" THEN <<Cmd("NLST", <<>>)>> ELSE <<>>)
               \o [k \in 1..Len(Requested) |-> Cmd("RETR", <<Requested[k]>>)]
               \o <<Cmd("QUIT", <<>>)>>

C2_Witness ==
    /\ op = "order_download" /\ pc = "done"
    /\ args.files = None
    /\ listing = <<"f1.nc", "f2.nc">>
    /\ Len(Retrs) = 2

\* C3: list_order_files and list_orders_ready close the session they opened
\* before they return.
C3_ListingSessionClosed ==
    (op \in {"list_order_files", "list_orders_ready"} /\ Returned) => ftp # "open"

DownloadFailed == op = "order_download" /\ pc = "failed"

\* C4 as stated: after a failure on the k-th file every file written for files
\* 1..k-1 is still complete on disk.
C4_EarlierFilesUnchanged ==
    DownloadFailed => \A j \in 1..done : disk[files.v[j]] = "full"

\* C4, amended: a failure is terminal (an error is raised, nothing is requested
\* after the file that failed, the next step is another call), navigation writes
\* nothing, and every file written for files 1..k-1 is still complete on disk
\* unless it is the very file the k-th attempt opened again.
C4_FailureIsTerminal ==
    /\ [](DownloadFailed =>
            /\ raised # "none"
            /\ Len(Retrs) \in {done, done + 1}
            /\ Retrs = [k \in 1..Len(Retrs) |-> Cmd("RETR", <<files.v[k]>>)]
            /\ \A j \in 1..done :
                  (Len(Retrs) = done \/ files.v[j] # files.v[done + 1])
                      => disk[files.v[j]] = "full")
    /\ [][DownloadFailed =>
            /\ disk' = disk
            /\ (op' = "order_download" => pc' = "login" /\ cmds' = <<>>)]_vars
    /\ [][(pc \in {"login", "cwd_user", "cwd_order", "grab"}) => disk' = disk]_vars

C4_Witness ==
    /\ DownloadFailed
    /\ files.v = <<"f1.nc", "f2.nc">>
    /\ done = 1 /\ Len(Retrs) = 2
    /\ disk["f1.nc"] = "full" /\ disk["f2.nc"] = "partial"

(***************************************************************************)
(* Properties of the listing operations                                    *)
(***************************************************************************)
\* "the pattern matches somewhere in the item", said without the matcher: the
\* pattern without its anchors lies in the item at some place the anchors allow
AnchoredStart(p) == Len(p) > 0 /\ p[1] = "^"
AnchoredEnd(p) == Len(p) > 0 /\ p[Len(p)] = "$"
Core(p) == SubSeq(p, IF AnchoredStart(p) THEN 2 ELSE 1,
                     IF AnchoredEnd(p) THEN Len(p) - 1 ELSE Len(p))

Matches(p, x) ==
    LET c == Core(p)
    IN  \E j \in 1..(Len(x) + 1) :
            /\ j + Len(c) - 1 <= Len(x)
            /\ AnchoredStart(p) => j = 1
            /\ AnchoredEnd(p) => j + Len(c) - 1 = Len(x)
            /\ \A i \in 1..Len(c) : c[i] = "." \/ c[i] = x[j + i - 1]

Survives(pattern, x) == pattern.t = "none" \/ Matches(pattern.v[1], x)

Count(x, l) == Cardinality({k \in 1..Len(l) : l[k] = x})

\* a <= b in the order of the code points
LexLeq(a, b) ==
    \/ Len(a) <= Len(b) /\ a = SubSeq(b, 1, Len(a))
    \/ \E k \in 1..Len(a) :
          /\ k <= Len(b)
          /\ SubSeq(a, 1, k - 1) = SubSeq(b, 1, k - 1)
          /\ Ord(a[k]) < Ord(b[k])

Ascending(l) == \A k \in 1..(Len(l) - 1) : LexLeq(l[k], l[k + 1])

ListFilesReturned == call.name = "list_files" /\ ret.t = "list"

\* C5: list_files returns the empty list exactly when the reply is the one-element
\* list ["No data files found"] or no entry survives the filter; in a longer reply
\* the sentinel text is an ordinary name, kept as often as it occurs when the
\* filter keeps it; a one-element reply of any other text that the filter keeps is
\* returned as it is.
C5_SentinelOnlyWhenAlone ==
    ListFilesReturned =>
        LET fs == reply[1]
            p == call.pattern
        IN  /\ ret.v = <<>> <=>
                  \/ fs = <<NoDataFilesFound>>
                  \/ \A k \in 1..Len(fs) : ~Survives(p, fs[k])
            /\ (Len(fs) >= 2 /\ Survives(p, NoDataFilesFound))
                  => Count(NoDataFilesFound, ret.v) = Count(NoDataFilesFound, fs)
            /\ (Len(fs) = 1 /\ fs # <<NoDataFilesFound>> /\ Survives(p, fs[1]))
                  => ret.v = fs

C5_Witness ==
    /\ ListFilesReturned
    /\ reply[1] = <<NoDataFilesFound, <<"a">>>>
    /\ call.pattern = None
    /\ ret.v = <<NoDataFilesFound, <<"a">>>>

\* C6: the result of list_datastreams, and of list_files on a reply that is not
\* the sentinel, is ascending and holds exactly the reply's entries that the
\* pattern matches (all of them without a pattern), each as often as in the reply.
C6_SortedMatchingMultiset ==
    (/\ call.name \in {"list_datastreams", "list_files"}
     /\ ret.t = "list"
     /\ ~(call.name = "list_files" /\ reply[1] = <<NoDataFilesFound>>)) =>
        /\ Ascending(ret.v)
        /\ \A x \in DataNames \cup Range(ret.v) :
              Count(x, ret.v) = IF Survives(call.pattern, x) THEN Count(x, reply[1]) ELSE 0

C6_Witness ==
    /\ call.name = "list_datastreams"
    /\ reply[1] = <<<<"b", "a">>, <<"b">>, <<"b", "a">>>>
    /\ call.pattern = Str(<<"a", "$">>)
    /\ ret = List(<<<<"b", "a">>, <<"b", "a">>>>)

\* the calendar, said without ordinals
Num(s, i, j) == IF i = j THEN DigitVal(s[i]) ELSE 10 * DigitVal(s[i]) + DigitVal(s[j])
YearOf(s) == 100 * Num(s, 1, 2) + Num(s, 3, 4)
MonthOf(s) == Num(s, 5, 6)
DayOf(s) == Num(s, 7, 8)
LastDay(y, m) ==
    IF m \in {4, 6, 9, 11} THEN 30
    ELSE IF m # 2 THEN 31
    ELSE IF y % 400 = 0 \/ (y % 4 = 0 /\ y % 100 # 0) THEN 29 ELSE 28
IsDate(s) ==
    /\ Len(s) = 8
    /\ MonthOf(s) \in 1..12
    /\ DayOf(s) \in 1..LastDay(YearOf(s), MonthOf(s))
IsDayAfter(e, s) ==
    /\ IsDate(e)
    /\ IF DayOf(s) < LastDay(YearOf(s), MonthOf(s))
         THEN YearOf(e) = YearOf(s) /\ MonthOf(e) = MonthOf(s) /\ DayOf(e) = DayOf(s) + 1
         ELSE IF MonthOf(s) < 12
                THEN YearOf(e) = YearOf(s) /\ MonthOf(e) = MonthOf(s) + 1 /\ DayOf(e) = 1
                ELSE YearOf(e) = YearOf(s) + 1 /\ MonthOf(e) = 1 /\ DayOf(e) = 1

\* C7: list_files sends one getFiles query, with the start date as given and, as
\* end date, the given one unchanged or, if none is given, the day after the
\* start date in the calendar.
C7_DefaultEndIsNextDay ==
    (call.name = "list_files" /\ (call.enddate.t = "str" \/ IsDate(call.startdate))) =>
        /\ Len(sent) = 1
        /\ sent[1].op = "getFiles"
        /\ sent[1].a[1] = call.datastreams
        /\ sent[1].a[2] = Str(call.startdate)
        /\ call.enddate.t = "str" => sent[1].a[3] = call.enddate
        /\ call.enddate.t = "none" =>
              /\ sent[1].a[3].t = "str"
              /\ IsDayAfter(sent[1].a[3].v[1], call.startdate)
              /\ call.startdate = <<"2", "0", "2", "3", "0", "2", "2", "8">> => sent[1].a[3].v[1] = <<"2", "0", "2", "3", "0", "3", "0", "1">>
              /\ call.startdate = <<"2", "0", "2", "4", "1", "2", "3", "1">> => sent[1].a[3].v[1] = <<"2", "0", "2", "5", "0", "1", "0", "1">>
              /\ call.startdate = <<"2", "0", "2", "0", "0", "1", "0", "1">> => sent[1].a[3].v[1] = <<"2", "0", "2", "0", "0", "1", "0", "2">>

C7_Witness ==
    /\ call.name = "list_files"
    /\ call.startdate = <<"2", "0", "2", "4", "1", "2", "3", "1">>
    /\ call.enddate = None
    /\ sent[1].a[3] = Str(<<"2", "0", "2", "5", "0", "1", "0", "1">>)

(***************************************************************************)
(* Properties of the ordering operations                                   *)
(***************************************************************************)
\* lit lies in text at position a
At(text, a, lit) ==
    /\ a + Len(lit) - 1 <= Len(text)
    /\ \A k \in 1..Len(lit) : text[a + k - 1] = lit[k]

AllIn(text, a, b, cls) == \A k \in a..b : text[k] \in cls

\* text holds, somewhere, 'user:' white space, lowercase letters, ', order session
\* ID:' white space, digits, ' number of files ordered:' white space, digits; and
\* (unless any) g is the letters and the two digit strings of such a place
HasConfirmation(text, g, any) ==
    \E a \in 1..Len(text) :
      /\ At(text, a, <<"u", "s", "e", "r", ":">>)
      /\ \E p1 \in (a + 5)..Len(text) :
           /\ AllIn(text, a + 5, p1 - 1, Whitespace)
           /\ \E p2 \in (p1 + 1)..Len(text) :
                /\ AllIn(text, p1, p2 - 1, Lowercase)
                /\ At(text, p2, <<",", " ", "o", "r", "d", "e", "r", " ", "s", "e", "s", "s", "i", "o", "n", " ", "I", "D", ":">>)
                /\ \E p3 \in (p2 + 19)..Len(text) :
                     /\ AllIn(text, p2 + 19, p3 - 1, Whitespace)
                     /\ \E p4 \in (p3 + 1)..Len(text) :
                          /\ AllIn(text, p3, p4 - 1, Digits)
                          /\ At(text, p4, <<" ", "n", "u", "m", "b", "e", "r", " ", "o", "f", " ", "f", "i", "l", "e", "s", " ", "o", "r", "d", "e", "r", "e", "d", ":">>)
                          /\ \E p5 \in (p4 + 25)..Len(text) :
                               /\ AllIn(text, p4 + 25, p5 - 1, Whitespace)
                               /\ \E p6 \in p5..Len(text) :
                                    /\ AllIn(text, p5, p6, Digits)
                                    /\ any \/ g = <<SubSeq(text, p1, p2 - 1),
                                                    SubSeq(text, p3, p4 - 1),
                                                    SubSeq(text, p5, p6)>>

\* C8: order_files returns (True, (user, order id, file count)), the three taken
\* from the reply, exactly when the reply holds text of the confirmation shape;
\* for every other reply it returns (False, reply), the reply as it was sent; it
\* raises nothing in either case.
C8_ConfirmationOrVerbatimReply ==
    (call.name = "order_files") =>
        /\ ret.t = "tuple"
        /\ ret.v[1] = TRUE <=> HasConfirmation(reply[1], <<>>, TRUE)
        /\ ret.v[1] = TRUE => HasConfirmation(reply[1], ret.v[2], FALSE)
        /\ ret.v[1] = FALSE => ret.v[2] = reply[1]

C8_Witness ==
    /\ call.name = "order_files"
    /\ reply[1] = <<"u", "s", "e", "r", ":", " ", "j", "d", "o", "e", ",", " ", "o", "r", "d", "e", "r", " ", "s", "e", "s", "s", "i", "o", "n", " ", "I", "D", ":", " ", "1", "2", "3", "4", "5", " ", "n", "u", "m", "b", "e", "r", " ", "o", "f", " ", "f", "i", "l", "e", "s", " ", "o", "r", "d", "e", "r", "e", "d", ":", " ", "7">>
    /\ ret = Tuple(TRUE, <<<<"j", "d", "o", "e">>, <<"1", "2", "3", "4", "5">>, <<"7">>>>)

ExactlyTrue(r) == Len(r) = 4 /\ r[1] = "t" /\ r[2] = "r" /\ r[3] = "u" /\ r[4] = "e"

\* C9: valid_user and order_clear return True if the reply is exactly the text
\* "true" and False for every other reply.
C9_TrueOnlyForExactTrue ==
    (call.name \in {"valid_user", "order_clear"}) =>
        /\ ret.t = "bool"
        /\ ret.v[1] = ExactlyTrue(reply[1])

C9_Witness ==
    /\ call.name = "order_clear"
    /\ reply[1] = <<"T", "r", "u", "e">>
    /\ ret = Bool(FALSE)

(***************************************************************************)
(* Properties of the order command                                         *)
(***************************************************************************)
NothingToOrder == Len(call.args.files) = 0 /\ call.args.file = None /\ call.args.dates = None

\* C10: the order command given no positional file, no -f file and no -d range
\* ends with SystemExit('error: no files to order') and sends nothing to the web
\* service; whenever an order is submitted, one of the three was given.
C10_NoInputNoRemoteCall ==
    (call.name = "main_order") =>
        /\ NothingToOrder =>
              /\ ret = Raise("SystemExit: error: no files to order")
              /\ sent = <<>>
        /\ (\E k \in 1..Len(sent) : sent[k].op = "processOrder") => ~NothingToOrder

C10_Witness ==
    /\ call.name = "main_order"
    /\ NothingToOrder
    /\ ret.t = "raise"
    /\ sent = <<>>

(***************************************************************************)
(* Specifications                                                          *)
(***************************************************************************)
Init ==
    /\ op = ""
    /\ args = [user |-> "", order_id |-> None, files |-> None]
    /\ pc = "idle"
    /\ ftp = "none"
    /\ openSessions = 0
    /\ cmds = <<>>
    /\ listing = <<>>
    /\ files = None
    /\ done = 0
    /\ disk = [f \in FileNames |-> "absent"]
    /\ raised = "none"
    /\ call = [name |-> ""]
    /\ sent = <<>>
    /\ reply = <<>>
    /\ ret = None

\* the FTP operations, called one after another by a single-threaded caller
Next ==
    \/ \E u \in Users, o \in OrderIds, fs \in FilesArgs : DownloadCall(u, o, fs)
    \/ \E ok \in BOOLEAN : DownloadLogin(ok)
    \/ \E ok \in BOOLEAN : DownloadCwdUser(ok)
    \/ \E ok \in BOOLEAN : DownloadCwdOrder(ok)
    \/ \E ok \in BOOLEAN, l \in Listings : DownloadGrab(ok, l)
    \/ \E out \in {"ok", "retr_fails", "open_fails"} : DownloadRetr(out)
    \/ DownloadQuit
    \/ \E u \in Users, o \in OrderIds, out \in ListOutcomes, l \in Listings :
           ListOrderFiles(u, o, out, l)
    \/ \E u \in Users, out \in ListOutcomes, l \in Listings : ListOrdersReady(u, out, l)

Spec == Init /\ [][Next]_vars

\* the listing operations of the web service, on every reply and pattern with a
\* fixed day, and on every start date with a fixed reply
CallListDatastreams == Fresh /\ \E p \in Patterns, r \in Replies : ListDatastreams(p, r)

CallListFiles ==
    /\ Fresh
    /\ \/ \E ds \in Datastreams, e \in EndDates, p \in Patterns, r \in Replies :
              ListFiles(ds, Date(2020, 1, 1), e, p, r)
       \/ \E ds \in Datastreams, d \in StartDates, e \in EndDates, r \in {<<>>, <<<<"a">>>>} :
              ListFiles(ds, d, e, None, r)

NextList == CallListDatastreams \/ CallListFiles

SpecList == Init /\ [][NextList]_vars

\* the ordering operations of the web service
CallOrderFiles ==
    Fresh /\ \E u \in Users, f \in OrderedNames, r \in OrderReplies : OrderFiles(u, f, r)

CallValidUser == Fresh /\ \E u \in Users, r \in BoolReplies : ValidUser(u, r)

CallOrderClear ==
    Fresh /\ \E u \in Users, o \in OrderIds, r \in BoolReplies : OrderClear(u, o, r)

NextOrder == CallOrderFiles \/ CallValidUser \/ CallOrderClear

SpecOrder == Init /\ [][NextOrder]_vars

\* one run of the order command
NextMain ==
    Fresh /\ \E a \in OrderArgs, l \in FileLines, fs \in MainReplies, r \in MainResponses \cup {<<>>} :
                 MainOrder(a, l, fs, r)

SpecMain == Init /\ [][NextMain]_vars

====
